---- MODULE Spec2Model ----
(***************************************************************************)
(* Two programs of the repository, each as a state machine:                *)
(*                                                                         *)
(*  - the buffers / cost surfaces / least cost path notebook, run cell by  *)
(*    cell in notebook order by an IPython (Python 2) kernel               *)
(*    (specification Spec);                                                *)
(*  - the gunittest class TestViewshedPoint of 07_next_steps.ipynb, run by *)
(*    the unittest runner (specification SpecTest).                        *)
(***************************************************************************)
EXTENDS Integers, Sequences, FiniteSets, TLC

VARIABLES
    \* ---- the notebook run --------------------------------------------
    cell,         \* index of the cell being executed
    stmt,         \* index of the statement of that cell to execute next
    status,       \* "running", "done" (last cell finished), "aborted" (exception)
    inflight,     \* source lines of the external calls in progress
    completed,    \* source lines of the external calls that have returned
    env,          \* names of the os.environ variables set by the notebook
    sysPath,      \* the toolkit's python directory was appended to sys.path
    raiseOnError, \* gs.set_raise_on_error(True) was executed
    rcfile,       \* the session rc file: "none", "exists", "removed"
    teardowns,    \* number of os.remove(rcfile) calls executed
    files,        \* working directory: data file -> "absent", "ok", "errorpage"
    requests,     \* data file -> number of urlretrieve requests issued
    mapPng,       \* map.png: [exists, layers drawn since the last erase]
    pending,      \* display commands run and not yet followed by an inline display
    lost,         \* display commands run whose image was erased (or the session
                  \* ended) before any inline display
    evaluated,    \* lines of the Image(...) expressions evaluated
    shown,        \* lines of the Image(...) expressions displayed inline
    lastShown,    \* layers of the image displayed last
    nfail,        \* number of failed calls that raised nothing
    lastFailed,   \* the external call that returned last failed
    \* ---- the TestViewshedPoint run -----------------------------------
    tpc,          \* position of the test runner
    current,      \* the test method of the current round ("" between rounds)
    remaining,    \* test methods not yet run in this run of the class
    runs,         \* number of runs of the class started
    region,       \* computational region: "default" or "test"
    tempRegion,   \* use_temp_region() is in effect
    vectors,      \* vector maps of the current mapset
    rasters,      \* raster maps of the current mapset
    npoints,      \* number of points in the input vector (0: no such map)
    done_points,  \* points r.viewshed.points has processed in this setUp
    results,      \* test method -> "notrun", "ok", "fail", "error"
    setUps,       \* number of setUp calls started
    bodies,       \* number of test bodies started
    tearDowns     \* number of tearDown calls finished

nbvars == <<cell, stmt, status, inflight, completed, env, sysPath, raiseOnError,
            rcfile, teardowns, files, requests, mapPng, pending, lost,
            evaluated, shown, lastShown, nfail, lastFailed>>

tvars == <<tpc, current, remaining, runs, region, tempRegion, vectors, rasters,
           npoints, done_points, results, setUps, bodies, tearDowns>>

vars == <<nbvars, tvars>>

\* Bound: at most this many calls of one run fail without raising.
MaxFailures == 2

(***************************************************************************)
(* The notebook: statements, by kind.  line is the statement's line in     *)
(* src/unnamed/part_000 and identifies it.                                 *)
(***************************************************************************)
Py(what, line)     == [op |-> "py", tool |-> what, file |-> "", line |-> line]
SetEnv(var, line)  == [op |-> "setenv", tool |-> var, file |-> "", line |-> line]
Sh(tool, line)     == [op |-> "sh", tool |-> tool, file |-> "", line |-> line]
ShF(tool, f, line) == [op |-> "sh", tool |-> tool, file |-> f, line |-> line]
Get(f, line)       == [op |-> "urlretrieve", tool |-> "", file |-> f, line |-> line]
Img(line)          == [op |-> "Image", tool |-> "", file |-> "map.png", line |-> line]

DataFiles == {"noise_cats.txt", "friction_rules.txt", "friction_color.txt",
              "fire_pt.txt", "lostperson.txt"}

CellIntro ==
    << Py("a = 6", 44), Py("b = 7", 45), Py("c = a * b", 46), Py("print", 47),
       Sh("echo", 50) >>

\* A mutation of CellInit: gsetup.init is not called.
CellInitNoSession ==
    << Py("import os, sys, subprocess, Image", 61),
       [op |-> "check_output", tool |-> "grass", file |-> "", line |-> 67],
       SetEnv("GISBASE", 68),
       [op |-> "syspath", tool |-> "", file |-> "", line |-> 69],
       [op |-> "import", tool |-> "grass.script", file |-> "", line |-> 72],
       [op |-> "import", tool |-> "grass.script.setup", file |-> "", line |-> 73] >>

CellInit ==
    << Py("import os, sys, subprocess, Image", 61),
       [op |-> "check_output", tool |-> "grass", file |-> "", line |-> 67],
       SetEnv("GISBASE", 68),
       [op |-> "syspath", tool |-> "", file |-> "", line |-> 69],
       [op |-> "import", tool |-> "grass.script", file |-> "", line |-> 72],
       [op |-> "import", tool |-> "grass.script.setup", file |-> "", line |-> 73],
       [op |-> "init", tool |-> "gsetup.init", file |-> "", line |-> 76] >>

CellErrors ==
    << SetEnv("GRASS_FONT", 87), SetEnv("GRASS_OVERWRITE", 89),
       [op |-> "set_raise", tool |-> "", file |-> "", line |-> 90],
       Py("gs.set_capture_stderr(True)", 91) >>

CellRender ==
    << SetEnv("GRASS_RENDER_IMMEDIATE", 102), SetEnv("GRASS_RENDER_FILE_READ", 103),
       SetEnv("GRASS_LEGEND_FILE", 104) >>

\* A mutation of CellDownloads: friction_color.txt is not fetched.
CellDownloadsIncomplete ==
    << Py("import urllib", 127),
       Get("noise_cats.txt", 128), Get("friction_rules.txt", 129),
       Get("fire_pt.txt", 131),
       Get("lostperson.txt", 132), Get("noise_cats.txt", 133),
       Get("fire_pt.txt", 134), Get("friction_rules.txt", 135),
       Get("lostperson.txt", 136) >>

CellDownloads ==
    << Py("import urllib", 127),
       Get("noise_cats.txt", 128), Get("friction_rules.txt", 129),
       Get("friction_color.txt", 130), Get("fire_pt.txt", 131),
       Get("lostperson.txt", 132), Get("noise_cats.txt", 133),
       Get("fire_pt.txt", 134), Get("friction_rules.txt", 135),
       Get("lostperson.txt", 136) >>

CellLakesBuffer ==
    << Sh("g.region", 161), Sh("r.buffer", 162), Sh("d.rast", 163), Img(164) >>

CellDevelopedLake ==
    << Sh("r.category", 181), Sh("r.mapcalc", 182), Sh("r.support", 183) >>

CellDevelopedLakeMap ==
    << Sh("d.rast", 200), Sh("d.vect", 201), Sh("d.rast", 202), Sh("d.legend", 203),
       Img(204) >>

CellLakesReport ==
    << Sh("r.report", 220), Sh("r.report", 221) >>

CellNoise ==
    << Sh("g.region", 243), Sh("r.buffer", 244), Sh("r.mapcalc", 245),
       Sh("r.colors", 246), ShF("r.category", "noise_cats.txt", 247),
       Sh("r.report", 248) >>

CellNoiseMap ==
    << Sh("d.rast", 264), Sh("d.vect", 265), Sh("d.legend", 266), Img(267) >>

CellSchools ==
    << Sh("v.to.rast", 286), Sh("r.mapcalc", 287), Sh("r.univar", 288),
       Sh("r.to.vect", 289), Sh("d.vect", 290), Sh("d.vect", 291), Img(292) >>

CellSpeed ==
    << Sh("g.region", 314), Sh("v.info", 315), Sh("v.to.rast", 316),
       Sh("r.mapcalc", 317), Sh("r.info", 318), Sh("r.colors", 319),
       Sh("d.rast", 320), Sh("d.legend", 321), Img(322) >>

CellStreetsCost ==
    << Sh("r.mapcalc", 343), Sh("r.cost", 344) >>

CellFirePoint ==
    << ShF("v.in.ascii", "fire_pt.txt", 364) >>

\* A mutation of CellIsochrones: the cell does not end with Image(...).
CellIsochronesNoImage ==
    << Sh("r.contour", 380), Sh("r.colors", 381), Sh("d.rast", 382),
       Sh("d.vect", 383), Sh("d.vect", 384), Sh("d.legend", 385) >>

CellIsochrones ==
    << Sh("r.contour", 380), Sh("r.colors", 381), Sh("d.rast", 382),
       Sh("d.vect", 383), Sh("d.vect", 384), Sh("d.legend", 385), Img(386) >>

CellFirestations ==
    << Sh("g.copy", 406), Sh("v.info", 407), Sh("v.what.rast", 408) >>

CellExport ==
    << Sh("v.out.ascii", 428) >>

CellDrain ==
    << Sh("r.drain", 452), Sh("r.drain", 453), Sh("r.colors", 454),
       Sh("r.colors", 455) >>

CellRoutesMap ==
    << Sh("d.erase", 473), Sh("d.rast", 474), Sh("d.vect", 475), Sh("d.rast", 476),
       Sh("d.rast", 477), Img(478) >>

CellDescribe ==
    << Sh("r.describe", 497), Sh("r.describe", 498) >>

CellLandclass ==
    << Sh("g.region", 522), Sh("r.category", 523) >>

CellFriction ==
    << ShF("r.recode", "friction_rules.txt", 540) >>

CellFrictionMap ==
    << Sh("r.mapcalc", 556), ShF("r.colors", "friction_color.txt", 557),
       Sh("d.erase", 558), Sh("d.rast", 559), Sh("d.legend", 560), Img(561) >>

CellWalk ==
    << Sh("r.walk", 582), Sh("r.contour", 583) >>

CellLostPerson ==
    << ShF("v.in.ascii", "lostperson.txt", 600) >>

CellWalkMap ==
    << Sh("d.erase", 616), Sh("d.rast", 617), Sh("d.rast", 618), Sh("d.vect", 619),
       Sh("d.vect", 620), Sh("d.vect", 621), Sh("d.vect", 622),
       Sh("d.legend", 623), Img(624) >>

CellRoadsRaster ==
    << Sh("g.region", 642), Sh("v.to.rast", 643) >>

CellDistance ==
    << Sh("r.mapcalc", 659), Sh("r.cost", 660), Sh("r.mapcalc", 661),
       Sh("r.mapcalc", 662), Sh("d.erase", 663), Sh("d.rast", 664),
       Sh("d.vect", 665), Img(666), Sh("d.vect", 667), Sh("d.vect", 668),
       Img(669) >>

CellEndSession ==
    << [op |-> "remove", tool |-> "os.remove", file |-> "rcfile", line |-> 679] >>

\* The code cells of the notebook, in notebook order.
Notebook ==
    << CellIntro, CellInit, CellErrors, CellRender, CellDownloads,
       CellLakesBuffer, CellDevelopedLake, CellDevelopedLakeMap, CellLakesReport,
       CellNoise, CellNoiseMap, CellSchools, CellSpeed, CellStreetsCost,
       CellFirePoint, CellIsochrones, CellFirestations, CellExport, CellDrain,
       CellRoutesMap, CellDescribe, CellLandclass, CellFriction, CellFrictionMap,
       CellWalk, CellLostPerson, CellWalkMap, CellRoadsRaster, CellDistance,
       CellEndSession >>

RECURSIVE Flatten(_)
Flatten(cells) ==
    IF cells = << >> THEN << >> ELSE Head(cells) \o Flatten(Tail(cells))

Statements == Flatten(Notebook)
AllStmts   == {Statements[i] : i \in 1..Len(Statements)}

DisplayTools == {"d.rast", "d.vect", "d.legend"}

\* A GRASS GIS module run as a '!' shell line (echo is plain shell).
IsToolkit(s) == s.op = "sh" /\ s.tool # "echo"
IsDisplay(s) == s.op = "sh" /\ s.tool \in DisplayTools
IsErase(s)   == s.op = "sh" /\ s.tool = "d.erase"

ToolkitLines  == {s.line : s \in {t \in AllStmts : IsToolkit(t)}}
DisplayLines  == {s.line : s \in {t \in AllStmts : IsDisplay(t)}}
ImageLines    == {s.line : s \in {t \in AllStmts : t.op = "Image"}}
ReaderStmts   == {t \in AllStmts : t.op = "sh" /\ t.file # ""}
StmtAt(line)  == CHOOSE s \in AllStmts : s.line = line

Cur == Notebook[cell][stmt]
Running == status = "running"

\* IPython displays the value of a cell's last expression only.
IsLastOfCell == stmt = Len(Notebook[cell])


(***************************************************************************)
(* The notebook run: one action per kind of statement.                     *)
(***************************************************************************)
NbInit ==
    /\ cell = 1 /\ stmt = 1 /\ status = "running"
    /\ inflight = {} /\ completed = {}
    /\ env = {} /\ sysPath = FALSE /\ raiseOnError = FALSE
    /\ rcfile = "none" /\ teardowns = 0
    /\ files = [f \in DataFiles |-> "absent"]
    /\ requests = [f \in DataFiles |-> 0]
    \* the working directory may hold a map.png of an earlier session
    /\ mapPng \in {[exists |-> e, layers |-> << >>] : e \in BOOLEAN}
    /\ pending = {} /\ lost = {}
    /\ evaluated = {} /\ shown = {} /\ lastShown = << >>
    /\ nfail = 0 /\ lastFailed = FALSE

\* The kernel goes on to the next statement, then to the next cell.
Advance ==
    IF stmt < Len(Notebook[cell])
    THEN cell' = cell /\ stmt' = stmt + 1 /\ status' = status
    ELSE IF cell < Len(Notebook)
         THEN cell' = cell + 1 /\ stmt' = 1 /\ status' = status
         ELSE cell' = cell /\ stmt' = stmt /\ status' = "done"

\* An exception ends the cell and the run of the notebook.
Raise == cell' = cell /\ stmt' = stmt /\ status' = "aborted"

\* a = 6, print, import os, import urllib, gs.set_capture_stderr(True)
ExecPy ==
    /\ Running /\ Cur.op = "py"
    /\ Advance
    /\ UNCHANGED <<inflight, completed, env, sysPath, raiseOnError, rcfile,
                   teardowns, files, requests, mapPng, pending, lost, evaluated,
                   shown, lastShown, nfail, lastFailed>>
    /\ UNCHANGED tvars

\* os.environ[NAME] = value
ExecSetEnv ==
    /\ Running /\ Cur.op = "setenv"
    /\ env' = env \cup {Cur.tool}
    /\ Advance
    /\ UNCHANGED <<inflight, completed, sysPath, raiseOnError, rcfile,
                   teardowns, files, requests, mapPng, pending, lost, evaluated,
                   shown, lastShown, nfail, lastFailed>>
    /\ UNCHANGED tvars

\* sys.path.append(os.path.join(gisbase, "etc", "python"))
ExecSysPath ==
    /\ Running /\ Cur.op = "syspath"
    /\ sysPath' = TRUE
    /\ Advance
    /\ UNCHANGED <<inflight, completed, env, raiseOnError, rcfile,
                   teardowns, files, requests, mapPng, pending, lost, evaluated,
                   shown, lastShown, nfail, lastFailed>>
    /\ UNCHANGED tvars

\* import grass.script ...: ImportError unless the package is on sys.path
ExecImport ==
    /\ Running /\ Cur.op = "import"
    /\ IF sysPath THEN Advance ELSE Raise
    /\ UNCHANGED <<inflight, completed, env, sysPath, raiseOnError, rcfile,
                   teardowns, files, requests, mapPng, pending, lost, evaluated,
                   shown, lastShown, nfail, lastFailed>>
    /\ UNCHANGED tvars

\* gs.set_raise_on_error(True): a flag of grass.script's own run_command family
ExecSetRaise ==
    /\ Running /\ Cur.op = "set_raise"
    /\ raiseOnError' = TRUE
    /\ Advance
    /\ UNCHANGED <<inflight, completed, env, sysPath, rcfile,
                   teardowns, files, requests, mapPng, pending, lost, evaluated,
                   shown, lastShown, nfail, lastFailed>>
    /\ UNCHANGED tvars

\* A mutation of StartCommand: the call is left running in the background
\* and the kernel goes on (as '!cmd &' would).
StartCommandBackground ==
    /\ Running /\ Cur.op \in {"sh", "check_output", "init", "urlretrieve"}
    /\ inflight' = inflight \cup {Cur.line}
    /\ requests' = IF Cur.op = "urlretrieve"
                   THEN [requests EXCEPT ![Cur.file] = @ + 1] ELSE requests
    /\ Advance
    /\ UNCHANGED <<completed, env, sysPath, raiseOnError, rcfile, teardowns,
                   files, mapPng, pending, lost, evaluated, shown, lastShown,
                   nfail, lastFailed>>
    /\ UNCHANGED tvars

\* '!cmd', subprocess.check_output, gsetup.init and urllib.urlretrieve are
\* blocking calls: the kernel stays on the statement until the call returns.
StartCommand ==
    /\ Running /\ Cur.op \in {"sh", "check_output", "init", "urlretrieve"}
    /\ Cur.line \notin inflight
    /\ inflight' = inflight \cup {Cur.line}
    /\ requests' = IF Cur.op = "urlretrieve"
                   THEN [requests EXCEPT ![Cur.file] = @ + 1] ELSE requests
    /\ UNCHANGED <<cell, stmt, status, completed, env, sysPath, raiseOnError,
                   rcfile, teardowns, files, mapPng, pending, lost, evaluated,
                   shown, lastShown, nfail, lastFailed>>
    /\ UNCHANGED tvars

\* What a '!' command needs in order to succeed: a module needs the session,
\* a display module the render driver, a rules/input file its content.
CanSucceed(s) ==
    /\ IsToolkit(s) => (rcfile = "exists" /\ "GISBASE" \in env)
    /\ (IsDisplay(s) \/ IsErase(s)) => "GRASS_RENDER_IMMEDIATE" \in env
    /\ s.file # "" => files[s.file] = "ok"

\* map.png after display module s has drawn: onto the existing image when
\* GRASS_RENDER_FILE_READ is set, onto a new one otherwise.
Rendered(s) ==
    [exists |-> TRUE,
     layers |-> IF mapPng.exists /\ "GRASS_RENDER_FILE_READ" \in env
                THEN Append(mapPng.layers, s.line) ELSE << s.line >>]

\* Display module s replaces the image instead of drawing onto it.
Overwrites(s) ==
    IsDisplay(s) /\ mapPng.exists /\ "GRASS_RENDER_FILE_READ" \notin env

Count(failed) == IF failed /\ nfail < MaxFailures THEN nfail + 1 ELSE nfail

\* '!cmd' returns. IPython keeps the exit status in _exit_code and raises
\* nothing, whatever the status: the kernel goes on to the next line.
FinishShell ==
    /\ Running /\ Cur.op = "sh" /\ Cur.line \in inflight
    /\ \E ok \in BOOLEAN :
        /\ ok => CanSucceed(Cur)
        /\ ~ok => (nfail < MaxFailures \/ ~CanSucceed(Cur))
        /\ nfail' = Count(~ok)
        /\ lastFailed' = ~ok
        /\ mapPng' = IF ok /\ IsDisplay(Cur) THEN Rendered(Cur)
                     ELSE IF ok /\ IsErase(Cur)
                          THEN [exists |-> TRUE, layers |-> << >>]
                          ELSE mapPng
        /\ pending' = IF IsDisplay(Cur)
                      THEN (IF ok /\ Overwrites(Cur) THEN {} ELSE pending)
                           \cup {Cur.line}
                      ELSE IF ok /\ IsErase(Cur) THEN {} ELSE pending
        /\ lost' = IF ok /\ (IsErase(Cur) \/ Overwrites(Cur))
                   THEN lost \cup pending ELSE lost
    /\ inflight' = inflight \ {Cur.line}
    /\ completed' = completed \cup {Cur.line}
    /\ Advance
    /\ UNCHANGED <<env, sysPath, raiseOnError, rcfile, teardowns, files,
                   requests, evaluated, shown, lastShown>>
    /\ UNCHANGED tvars

\* subprocess.check_output(["grass", "--config", "path"]) returns, or raises
\* CalledProcessError / OSError.
FinishCheckOutput ==
    /\ Running /\ Cur.op = "check_output" /\ Cur.line \in inflight
    /\ \E ok \in BOOLEAN :
        /\ lastFailed' = ~ok
        /\ IF ok THEN Advance ELSE Raise
    /\ inflight' = inflight \ {Cur.line}
    /\ completed' = completed \cup {Cur.line}
    /\ UNCHANGED <<env, sysPath, raiseOnError, rcfile, teardowns, files,
                   requests, mapPng, pending, lost, evaluated, shown, lastShown,
                   nfail>>
    /\ UNCHANGED tvars

\* rcfile = gsetup.init(gisbase, dbase, location, mapset): writes the session
\* rc file and sets GISRC, or raises.
FinishInit ==
    /\ Running /\ Cur.op = "init" /\ Cur.line \in inflight
    /\ \E ok \in BOOLEAN :
        /\ lastFailed' = ~ok
        /\ rcfile' = IF ok THEN "exists" ELSE rcfile
        /\ env' = IF ok THEN env \cup {"GISRC"} ELSE env
        /\ IF ok THEN Advance ELSE Raise
    /\ inflight' = inflight \ {Cur.line}
    /\ completed' = completed \cup {Cur.line}
    /\ UNCHANGED <<sysPath, raiseOnError, teardowns, files, requests, mapPng,
                   pending, lost, evaluated, shown, lastShown, nfail>>
    /\ UNCHANGED tvars

\* urllib.urlretrieve(url, name) (Python 2) returns with the file written, or
\* returns with the server's error page written (an HTTP error status raises
\* nothing), or raises IOError (no connection).
FinishUrlretrieve ==
    /\ Running /\ Cur.op = "urlretrieve" /\ Cur.line \in inflight
    /\ \E out \in {"ok", "errorpage", "ioerror"} :
        /\ out = "errorpage" => nfail < MaxFailures
        /\ nfail' = Count(out = "errorpage")
        /\ lastFailed' = (out # "ok")
        /\ files' = IF out = "ioerror" THEN files
                    ELSE [files EXCEPT ![Cur.file] = out]
        /\ IF out = "ioerror" THEN Raise ELSE Advance
    /\ inflight' = inflight \ {Cur.line}
    /\ completed' = completed \cup {Cur.line}
    /\ UNCHANGED <<env, sysPath, raiseOnError, rcfile, teardowns, requests,
                   mapPng, pending, lost, evaluated, shown, lastShown>>
    /\ UNCHANGED tvars

\* Image(filename="map.png"): reads the file (IOError when there is none);
\* the value is displayed inline when it is the value of the cell, that is
\* when the expression is the cell's last statement.
EvalImage ==
    /\ Running /\ Cur.op = "Image"
    /\ IF mapPng.exists
       THEN /\ evaluated' = evaluated \cup {Cur.line}
            /\ IF IsLastOfCell
               THEN /\ shown' = shown \cup {Cur.line}
                    /\ lastShown' = mapPng.layers
                    /\ pending' = {}
               ELSE UNCHANGED <<shown, lastShown, pending>>
            /\ Advance
       ELSE /\ Raise
            /\ UNCHANGED <<evaluated, shown, lastShown, pending>>
    /\ UNCHANGED <<inflight, completed, env, sysPath, raiseOnError, rcfile,
                   teardowns, files, requests, mapPng, lost, nfail, lastFailed>>
    /\ UNCHANGED tvars

\* os.remove(rcfile): ends the session; OSError when there is no such file.
ExecRemove ==
    /\ Running /\ Cur.op = "remove"
    /\ IF rcfile = "exists"
       THEN /\ rcfile' = "removed"
            /\ teardowns' = teardowns + 1
            /\ lost' = lost \cup pending
            /\ completed' = completed \cup {Cur.line}
            /\ Advance
       ELSE /\ Raise
            /\ UNCHANGED <<rcfile, teardowns, lost, completed>>
    /\ UNCHANGED <<inflight, env, sysPath, raiseOnError, files, requests,
                   mapPng, pending, evaluated, shown, lastShown, nfail,
                   lastFailed>>
    /\ UNCHANGED tvars

NbNext ==
    \/ ExecPy \/ ExecSetEnv \/ ExecSysPath \/ ExecImport \/ ExecSetRaise
    \/ StartCommand \/ FinishShell \/ FinishCheckOutput \/ FinishInit
    \/ FinishUrlretrieve \/ EvalImage \/ ExecRemove


(***************************************************************************)
(* TestViewshedPoint, run by the unittest runner: setUpClass once, then    *)
(* for every test method setUp, the method, tearDown.                      *)
(***************************************************************************)
\* Bound: the class is run at most this many times on the same mapset.
MaxRuns == 3

prefix == "test_rviewshedpoints_"

\* A mutation of NPoints: v.random ... npoints=9
NPointsOff == 10 - 1

\* setUpClass: v.random ... npoints=10
NPoints == 10

\* self.assertEqual(first=10, second=num_viewsheds, ...)
ExpectedViewsheds == 10

Tests == {"test_outputs_exists", "test_area_matches"}

\* A map name: <<the part matched against the prefix, the rest, a number>>.
InputPoints  == << prefix, "input_points", 0 >>
OutputPoints == << prefix, "output_points", 0 >>
Viewshed(i)  == << prefix, "output_viewshed", i >>
Elevation    == << "", "elevation", 0 >>

\* The glob pattern  prefix + '*'
Matches(name) == name[1] = prefix

TInit ==
    /\ tpc = "idle" /\ current = "" /\ remaining = {} /\ runs = 0
    /\ region = "default" /\ tempRegion = FALSE
    /\ vectors = {} /\ rasters = {Elevation}
    /\ npoints = 0 /\ done_points = 0
    /\ results = [t \in Tests |-> "notrun"]
    /\ setUps = 0 /\ bodies = 0 /\ tearDowns = 0

\* test(): the runner starts a run of the class.
StartClass ==
    /\ tpc = "idle" /\ runs < MaxRuns
    /\ runs' = runs + 1
    /\ remaining' = Tests
    /\ results' = [t \in Tests |-> "notrun"]
    /\ tpc' = "use_temp_region"
    /\ UNCHANGED <<current, region, tempRegion, vectors, rasters, npoints,
                   done_points, setUps, bodies, tearDowns>>
    /\ UNCHANGED nbvars

\* setUpClass: cls.use_temp_region()
UseTempRegion ==
    /\ tpc = "use_temp_region"
    /\ tempRegion' = TRUE
    /\ tpc' = "g.region"
    /\ UNCHANGED <<current, remaining, runs, region, vectors, rasters, npoints,
                   done_points, results, setUps, bodies, tearDowns>>
    /\ UNCHANGED nbvars

\* setUpClass: cls.runModule('g.region', ...)
GRegion ==
    /\ tpc = "g.region"
    /\ region' = "test"
    /\ tpc' = "v.random"
    /\ UNCHANGED <<current, remaining, runs, tempRegion, vectors, rasters,
                   npoints, done_points, results, setUps, bodies, tearDowns>>
    /\ UNCHANGED nbvars

\* setUpClass: cls.runModule('v.random', output=prefix + 'input_points', ...)
VRandom ==
    /\ tpc = "v.random"
    /\ vectors' = vectors \cup {InputPoints}
    /\ npoints' = NPoints
    /\ tpc' = "ready"
    /\ UNCHANGED <<current, remaining, runs, region, tempRegion, rasters,
                   done_points, results, setUps, bodies, tearDowns>>
    /\ UNCHANGED nbvars

\* The runner takes the next test method (in any order) and calls setUp.
PickTest ==
    /\ tpc = "ready" /\ remaining # {}
    /\ \E t \in remaining :
        /\ current' = t
        /\ remaining' = remaining \ {t}
    /\ setUps' = setUps + 1
    /\ done_points' = 0
    /\ tpc' = "setUp"
    /\ UNCHANGED <<runs, region, tempRegion, vectors, rasters, npoints,
                   results, bodies, tearDowns>>
    /\ UNCHANGED nbvars

\* setUp: runModule('r.viewshed.points', points=input_points, ...) fails when
\* its input is missing; runModule raises, the runner records an error for
\* the method and calls neither the method nor tearDown.
SetUpFails ==
    /\ tpc = "setUp" /\ done_points = 0
    /\ InputPoints \notin vectors
    /\ results' = [results EXCEPT ![current] = "error"]
    /\ current' = ""
    /\ tpc' = "ready"
    /\ UNCHANGED <<remaining, runs, region, tempRegion, vectors, rasters,
                   npoints, done_points, setUps, bodies, tearDowns>>
    /\ UNCHANGED nbvars

\* r.viewshed.points: one viewshed raster for the next input point.
ViewshedPoint ==
    /\ tpc = "setUp"
    /\ InputPoints \in vectors
    /\ done_points < npoints
    /\ rasters' = rasters \cup {Viewshed(done_points + 1)}
    /\ done_points' = done_points + 1
    /\ UNCHANGED <<tpc, current, remaining, runs, region, tempRegion, vectors,
                   npoints, results, setUps, bodies, tearDowns>>
    /\ UNCHANGED nbvars

\* r.viewshed.points: the output points with the area column; setUp returns
\* and the runner calls the test method.
ViewshedFinish ==
    /\ tpc = "setUp"
    /\ InputPoints \in vectors
    /\ done_points = npoints
    /\ vectors' = vectors \cup {OutputPoints}
    /\ bodies' = bodies + 1
    /\ tpc' = "body"
    /\ UNCHANGED <<current, remaining, runs, region, tempRegion, rasters,
                   npoints, done_points, results, setUps, tearDowns>>
    /\ UNCHANGED nbvars

\* gscript.list_grouped(['raster'], pattern=prefix + '*')[MAPSET]
ListedRasters == {r \in rasters : Matches(r)}

test_outputs_exists ==
    /\ tpc = "body" /\ current = "test_outputs_exists"
    /\ results' = [results EXCEPT ![current] =
                     IF /\ Cardinality(ListedRasters) = ExpectedViewsheds
                        /\ OutputPoints \in vectors
                     THEN "ok" ELSE "fail"]
    /\ tpc' = "tearDown"
    /\ UNCHANGED <<current, remaining, runs, region, tempRegion, vectors,
                   rasters, npoints, done_points, setUps, bodies, tearDowns>>
    /\ UNCHANGED nbvars

\* assertVectorFitsUnivar: the outcome depends on the computed areas.
test_area_matches ==
    /\ tpc = "body" /\ current = "test_area_matches"
    /\ \E fits \in BOOLEAN :
        results' = [results EXCEPT ![current] =
                      IF OutputPoints \in vectors /\ fits THEN "ok" ELSE "fail"]
    /\ tpc' = "tearDown"
    /\ UNCHANGED <<current, remaining, runs, region, tempRegion, vectors,
                   rasters, npoints, done_points, setUps, bodies, tearDowns>>
    /\ UNCHANGED nbvars

\* A mutation of tearDown: g.remove type='raster' only.
tearDownRasters ==
    /\ tpc = "tearDown"
    /\ rasters' = {r \in rasters : ~Matches(r)}
    /\ tearDowns' = tearDowns + 1
    /\ current' = ""
    /\ tpc' = "ready"
    /\ UNCHANGED <<remaining, runs, region, tempRegion, vectors, npoints,
                   done_points, results, setUps, bodies>>
    /\ UNCHANGED nbvars

\* tearDown (called whether the method passed or failed):
\* runModule('g.remove', type=['raster', 'vector'], pattern=prefix + '*', flags='f')
tearDown ==
    /\ tpc = "tearDown"
    /\ rasters' = {r \in rasters : ~Matches(r)}
    /\ vectors' = {v \in vectors : ~Matches(v)}
    /\ npoints' = IF Matches(InputPoints) THEN 0 ELSE npoints
    /\ tearDowns' = tearDowns + 1
    /\ current' = ""
    /\ tpc' = "ready"
    /\ UNCHANGED <<remaining, runs, region, tempRegion, done_points, results,
                   setUps, bodies>>
    /\ UNCHANGED nbvars

\* Every method has had its round: the run of the class (and its process,
\* with the temporary region) ends.
FinishClass ==
    /\ tpc = "ready" /\ remaining = {}
    /\ tpc' = "idle"
    /\ tempRegion' = FALSE
    /\ region' = "default"
    /\ UNCHANGED <<current, remaining, runs, vectors, rasters, npoints,
                   done_points, results, setUps, bodies, tearDowns>>
    /\ UNCHANGED nbvars

TNext ==
    \/ StartClass \/ UseTempRegion \/ GRegion \/ VRandom \/ PickTest
    \/ SetUpFails \/ ViewshedPoint \/ ViewshedFinish
    \/ test_outputs_exists \/ test_area_matches \/ tearDown \/ FinishClass

(***************************************************************************)
(* Specifications: one program runs, the other is at rest.                 *)
(***************************************************************************)
Init     == NbInit /\ TInit
Next     == NbNext
Spec     == Init /\ [][Next]_vars

InitTest == NbInit /\ TInit /\ ~mapPng.exists
NextTest == TNext
SpecTest == InitTest /\ [][NextTest]_vars


(***************************************************************************)
(* Properties of the notebook run (checked under Spec).                    *)
(***************************************************************************)
Range(seq) == {seq[i] : i \in 1..Len(seq)}

\* C1: once gs.set_raise_on_error(True) has been executed, a failing
\* external command ('!' line or urlretrieve included) raises an error and
\* stops the run: the run is aborted and no command is in progress after a
\* failure.
C1_FailureStopsRun ==
    (raiseOnError /\ lastFailed) => (status = "aborted" /\ inflight = {})

Bootstrapped == "GISBASE" \in env /\ sysPath /\ "GISRC" \in env

\* C2: a toolkit command runs only with the session bootstrap complete and
\* the rc file in existence; os.remove(rcfile) happens at most once, only
\* after every toolkit command of the notebook has been invoked, none runs
\* after it, and a run that reaches the end of the notebook has done it
\* exactly once.
C2_SessionBracketsToolkit ==
    /\ \A l \in inflight :
          IsToolkit(StmtAt(l)) => (Bootstrapped /\ rcfile = "exists")
    /\ (ToolkitLines \cap completed # {}) => Bootstrapped
    /\ teardowns <= 1
    /\ (teardowns = 1) = (rcfile = "removed")
    /\ teardowns = 1 => (ToolkitLines \subseteq completed /\ inflight = {})
    /\ status = "done" => teardowns = 1

C2_Witness ==
    /\ status = "done" /\ teardowns = 1 /\ rcfile = "removed"
    /\ ToolkitLines \subseteq completed

\* C3: no external call is issued a second time for the same step: each of
\* the five data files is requested at most once, and exactly once in a run
\* that reaches the end of the notebook.
C3_EachFileRequestedOnce ==
    \A f \in DataFiles :
        /\ requests[f] <= 1
        /\ status = "done" => requests[f] = 1

\* The blocking calls written before source line l (source order is
\* notebook order).
CallsBefore(l) ==
    {s.line : s \in {t \in AllStmts :
        t.op \in {"sh", "check_output", "init", "urlretrieve"} /\ t.line < l}}

\* C4: at most one external command is in progress at any moment, it is the
\* one of the current statement, and it started only after every command
\* written before it had returned; so no two commands draw on map.png (or
\* write any map) at the same time.
C4_OneCommandAtATime ==
    /\ Cardinality(inflight) <= 1
    /\ \A l \in inflight :
          /\ l = Cur.line
          /\ CallsBefore(l) \subseteq completed
          /\ completed \cap {m \in ToolkitLines : m >= l} = {}

C4_Witness ==
    /\ inflight = {664}
    /\ 663 \in completed

\* C5: a display command runs only with GRASS_RENDER_IMMEDIATE and
\* GRASS_RENDER_FILE_READ set, so that it draws onto map.png; after every
\* display command run an inline display of map.png follows before d.erase
\* erases the image and before the session ends: none is ever lost, none
\* is left when the notebook ends, and a run stopped by an exception leaves
\* nothing that was rendered undisplayed.
C5_RenderedThenDisplayed ==
    /\ \A l \in inflight :
          IsDisplay(StmtAt(l)) =>
             {"GRASS_RENDER_IMMEDIATE", "GRASS_RENDER_FILE_READ"} \subseteq env
    /\ pending \subseteq DisplayLines
    /\ lost = {}
    /\ status = "done" => pending = {}
    /\ status = "aborted" => pending \cap Range(mapPng.layers) = {}

C5_Witness ==
    /\ status = "done"
    /\ 386 \in shown /\ 473 \in completed
    /\ {664, 665, 667, 668} \subseteq Range(lastShown)

\* C6: a command that reads a data file by bare name runs only after a
\* download of that file has returned; every toolkit command runs, and the
\* notebook ends, with all five files in the working directory, and with
\* their contents unless a download met an HTTP error.
C6_FilesDownloadedBeforeUse ==
    /\ \A l \in inflight \cup completed :
          StmtAt(l) \in ReaderStmts =>
             /\ files[StmtAt(l).file] # "absent"
             /\ requests[StmtAt(l).file] > 0
    /\ (ToolkitLines \cap (inflight \cup completed) # {} \/ status = "done") =>
          \A f \in DataFiles :
             /\ files[f] # "absent"
             /\ nfail = 0 => files[f] = "ok"

C6_Witness ==
    /\ {247, 364, 540, 557, 600} \subseteq completed
    /\ \A f \in DataFiles : files[f] = "ok"

\* C10: every Image(filename="map.png") expression evaluated is displayed
\* inline, and the distance-to-roads cell displays two images.
C10_EveryImageDisplayed ==
    /\ evaluated \subseteq shown
    /\ status = "done" => {666, 669} \subseteq shown

(***************************************************************************)
(* Properties of the TestViewshedPoint run (checked under SpecTest).       *)
(***************************************************************************)
PrefixMaps == {m \in rasters \cup vectors : Matches(m)}
OutputMaps == {m \in PrefixMaps : m[2] \in {"output_points", "output_viewshed"}}

\* C7: whenever setUp runs, the input vector created by setUpClass and the
\* region set there still exist, so no test method ends in a setUp error.
C7_SetUpInputsExist ==
    /\ tpc = "setUp" => (InputPoints \in vectors /\ region = "test")
    /\ \A t \in Tests : results[t] # "error"

\* C8: every test body is followed by tearDown, after which (and so at the
\* start of every setUp) no output map of r.viewshed.points is in the
\* mapset; after a run of the class no map with the test prefix remains.
C8_TearDownRemovesOutputs ==
    /\ tpc \in {"ready", "idle"} => (OutputMaps = {} /\ bodies = tearDowns)
    /\ (tpc = "setUp" /\ done_points = 0) => OutputMaps = {}
    /\ (tpc = "idle" /\ runs > 0) => PrefixMaps = {}

C8_Witness ==
    /\ tpc = "ready" /\ tearDowns = 1 /\ bodies = 1
    /\ remaining # {}

====
